---- MODULE Spec2Model ----
(***************************************************************************)
(* BlockPass: the EventManager contract (substrate/lib.rs) and the         *)
(* TicketNFT contract (substrate/nft.rs).                                  *)
(*                                                                         *)
(* Every ink! message runs as one atomic step (the chain serialises        *)
(* calls), so each mutating message is one action.  The cross-contract     *)
(* call from purchase_ticket into TicketNFT::mint_ticket is synchronous    *)
(* and is part of the purchase_ticket action.  The &self messages (the     *)
(* getters) change no storage and are operators over the state.            *)
(*                                                                         *)
(* `last` records the most recent mutating call: the message, the caller   *)
(* the environment reported, the event id passed and the value returned.   *)
(*                                                                         *)
(* next_event_id, tickets_sold and token_id_counter are u64 and            *)
(* ticket_price is u128; every value the model reaches is far below 2^64,  *)
(* so the arithmetic is exact.  Every ticket_nft_address is the address of *)
(* a deployed TicketNFT; a call into an address without one is not         *)
(* modelled.                                                               *)
(***************************************************************************)
EXTENDS Integers, Sequences, FiniteSets

\* ------------------------------------------------------------ bounds
\* A direct mint_ticket call is offered while the issuer's token_id_counter is
\* at most MaxDirectId.
MaxDirectId == 1

\* A purchase_ticket call that reaches the mint is offered while the issuers
\* have minted fewer than MaxMints tokens between them.  The call may mint and
\* record nothing, so the capacities of the events do not bound the counters.
MaxMints == 2

\* ------------------------------------------------------------ input sets
\* Callers of the EventManager messages.
Accounts == {"alice", "bob"}
\* The account whose call constructed the EventManager.
Deployer == "alice"
\* The account that calls TicketNFT::mint_ticket directly, for itself.
Outsider == "mallory"
\* Addresses at which a TicketNFT contract is deployed.
Issuers == {"nft1", "nft2"}
\* The issuers on which mint_ticket is also called directly.
DirectIssuers == {"nft1"}
\* Values the environment reports as transferred_balance.
Payments == {0, 1000}
Uris == {"TicketURI"}
\* Ids create_event may assign in the model; create_event is offered while
\* next_event_id is one of them.
CreatableIds == {1, 2}
\* Event ids passed to the messages: every creatable id, and one never created.
EventIds == CreatableIds \cup {3}
\* Token ids passed to the getters of TicketNFT.
TokenIds == 0..(MaxDirectId + MaxMints + 1)

Details(price, max) ==
    [title |-> "Concert", date |-> "2024-12-01", location |-> "Stadium",
     ticket_price |-> price, max_tickets |-> max]
\* Details with empty strings, no price and no place.
EmptyDetails ==
    [title |-> "", date |-> "", location |-> "",
     ticket_price |-> 0, max_tickets |-> 0]
\* The details passed to create_event: a priced event with two places, a free
\* event with one place, and the empty details.
EventDetails == {Details(1000, 2), Details(0, 1), EmptyDetails}

\* Option<T>: None is the empty sequence, Some(x) the one-element sequence.
None == << >>
Some(x) == << x >>

VARIABLES
    owner,                   \* EventManager.owner
    next_event_id,           \* EventManager.next_event_id
    events,                  \* EventManager.events : event_id -> Event
    user_registered_events,  \* EventManager.user_registered_events : AccountId -> Vec<u64>
    nft,                     \* address -> TicketNFT storage
    last                     \* the most recent call and its result

vars == << owner, next_event_id, events, user_registered_events, nft, last >>
registry == << owner, next_event_id, events, user_registered_events >>

\* ------------------------------------------------------------ TicketNFT
\* TicketNFT::new
NewTicketNFT ==
    [owner |-> Deployer, name |-> "BlockPassNFT", symbol |-> "BPNT",
     token_id_counter |-> 1, tokens |-> << >>, token_uris |-> << >>]

\* HashMap::insert
Insert(map, k, v) ==
    [x \in (DOMAIN map) \cup {k} |-> IF x = k THEN v ELSE map[x]]

\* A lookup that falls back to some stored entry when the key is absent.
Get_Fallback(map, k) ==
    IF k \in DOMAIN map THEN Some(map[k])
    ELSE IF DOMAIN map # {} THEN Some(map[CHOOSE x \in DOMAIN map : TRUE])
    ELSE None

\* HashMap::get
Get(map, k) == IF k \in DOMAIN map THEN Some(map[k]) ELSE None

\* The id mint_ticket assigns and returns.
MintedId(st) == st.token_id_counter

\* A mint that writes the recipient over every token of the issuer.
MintedState_Clobber(st, recipient, token_uri) ==
    [st EXCEPT !.token_id_counter = st.token_id_counter + 1,
               !.tokens       = [x \in DOMAIN st.tokens \cup {MintedId(st)} |-> recipient],
               !.token_uris   = Insert(st.token_uris, MintedId(st), token_uri)]

\* TicketNFT::mint_ticket: the storage after the call.
MintedState(st, recipient, token_uri) ==
    [st EXCEPT !.token_id_counter = st.token_id_counter + 1,
               !.tokens           = Insert(st.tokens, MintedId(st), recipient),
               !.token_uris       = Insert(st.token_uris, MintedId(st), token_uri)]

\* ------------------------------------------------------------ EventManager
\* create_event handing out the id before the counter.
AssignedEventId_Stale == IF next_event_id > 1 THEN next_event_id - 1 ELSE 1

\* The id create_event assigns and returns.
AssignedEventId == next_event_id

\* An Event whose host is the owner of the registry, not the caller.
NewEvent_OwnerHost(event_id, details, ticket_nft_address, caller) ==
    [event_id           |-> event_id,
     details            |-> details,
     ticket_nft_address |-> ticket_nft_address,
     attendees          |-> << >>,
     tickets_sold       |-> 0,
     active             |-> TRUE,
     host               |-> owner]

\* The Event value create_event stores.
NewEvent(event_id, details, ticket_nft_address, caller) ==
    [event_id           |-> event_id,
     details            |-> details,
     ticket_nft_address |-> ticket_nft_address,
     attendees          |-> << >>,
     tickets_sold       |-> 0,
     active             |-> TRUE,
     host               |-> caller]

\* The purchase condition without the capacity test.
CanPurchase_NoCapacity(event, payment) ==
    /\ event.active
    /\ payment >= event.details.ticket_price

\* The purchase condition without the payment test.
CanPurchase_NoPayment(event, payment) ==
    /\ event.active
    /\ event.tickets_sold < event.details.max_tickets

\* The purchase condition without the active test.
CanPurchase_IgnoreActive(event, payment) ==
    /\ event.tickets_sold < event.details.max_tickets
    /\ payment >= event.details.ticket_price

\* The condition of purchase_ticket's if.
CanPurchase(event, payment) ==
    /\ event.active
    /\ event.tickets_sold < event.details.max_tickets
    /\ payment >= event.details.ticket_price

\* The values the operand of the sentinel test may hold.  The source tests the
\* name minted_ticket_id, which is bound nowhere: the mint result is bound to
\* token_id and never read.  The test only tells 0 from the rest, so a zero
\* and a non-zero value stand for every binding the name could be given.
MintedTicketIds == {0, 1}

\* The sentinel test: minted_ticket_id == 0.
MintFailed(minted_ticket_id) == minted_ticket_id = 0

\* The push without the counter increment.
RecordAttendee_NoCount(event, caller) ==
    [event EXCEPT !.attendees = Append(@, caller)]

\* A push at the front of the roll.
RecordAttendee_Prepend(event, caller) ==
    [event EXCEPT !.attendees = << caller >> \o @, !.tickets_sold = @ + 1]

\* A push that skips a caller already on the roll.
RecordAttendee_Unique(event, caller) ==
    IF \E i \in DOMAIN event.attendees : event.attendees[i] = caller
    THEN event
    ELSE [event EXCEPT !.attendees = Append(@, caller), !.tickets_sold = @ + 1]

\* event.attendees.push(caller); event.tickets_sold += 1
RecordAttendee(event, caller) ==
    [event EXCEPT !.attendees = Append(@, caller), !.tickets_sold = @ + 1]

\* An insert that replaces the caller's sequence instead of extending it.
RegisterUserEvent_Replace(ure, caller, event_id) ==
    Insert(ure, caller, << event_id >>)

\* An insert that skips an event id the caller's sequence already holds.
RegisterUserEvent_Dedup(ure, caller, event_id) ==
    IF caller \in DOMAIN ure /\ \E i \in DOMAIN ure[caller] : ure[caller][i] = event_id
    THEN ure
    ELSE Insert(ure, caller,
                Append(IF caller \in DOMAIN ure THEN ure[caller] ELSE << >>, event_id))

\* user_registered_events.entry(caller).or_insert(Vec::new()).push(event_id)
RegisterUserEvent(ure, caller, event_id) ==
    Insert(ure, caller,
           Append(IF caller \in DOMAIN ure THEN ure[caller] ELSE << >>, event_id))

\* A host test that also lets the contract owner through.
IsHost_OrOwner(event, caller) == event.host = caller \/ caller = owner

\* The host test of deactivate_event.
IsHost(event, caller) == event.host = caller

\* A deactivation that flips the flag.
Deactivated_Toggle(event) == [event EXCEPT !.active = ~@]

\* A deactivation that also empties the roll.
Deactivated_ClearsRoll(event) ==
    [event EXCEPT !.active = FALSE, !.attendees = << >>, !.tickets_sold = 0]

\* event.active = false
Deactivated(event) == [event EXCEPT !.active = FALSE]

\* The record of a call: the message, the caller the environment reports, the
\* event id passed (0 when the message takes none) and the value returned.
Call(op, caller, event_id, ret) ==
    [op |-> op, caller |-> caller, event_id |-> event_id, ret |-> ret]

\* ------------------------------------------------------------ initial state
Init ==
    /\ owner = Deployer
    /\ next_event_id = 1
    /\ events = << >>
    /\ user_registered_events = << >>
    /\ nft = [a \in Issuers |-> NewTicketNFT]
    /\ last = Call("new", Deployer, 0, 0)

\* The number of tokens the issuers have minted between them.
TotalMinted ==
    (nft["nft1"].token_id_counter - 1) + (nft["nft2"].token_id_counter - 1)

\* ------------------------------------------------------------ messages
create_event(caller, details, ticket_nft_address) ==
    /\ next_event_id \in CreatableIds
    /\ LET event_id == AssignedEventId IN
         /\ next_event_id' = next_event_id + 1
         /\ events' = Insert(events, event_id,
                             NewEvent(event_id, details, ticket_nft_address, caller))
         /\ last' = Call("create_event", caller, 0, event_id)
    /\ UNCHANGED << owner, user_registered_events, nft >>

purchase_ticket(caller, payment, event_id, token_uri) ==
    LET found == Get(events, event_id) IN
    IF found = None
    THEN /\ last' = Call("purchase_ticket", caller, event_id, FALSE)
         /\ UNCHANGED << registry, nft >>
    ELSE LET event == found[1]
             addr  == event.ticket_nft_address
         IN
         IF CanPurchase(event, payment)
         THEN \E minted_ticket_id \in MintedTicketIds :
              /\ TotalMinted < MaxMints
              /\ nft' = [nft EXCEPT ![addr] = MintedState(@, caller, token_uri)]
              /\ IF MintFailed(minted_ticket_id)
                 THEN /\ last' = Call("purchase_ticket", caller, event_id, FALSE)
                      /\ UNCHANGED registry
                 ELSE /\ events' = [events EXCEPT
                                      ![event.event_id] = RecordAttendee(@, caller)]
                      /\ user_registered_events' =
                             RegisterUserEvent(user_registered_events, caller, event_id)
                      /\ last' = Call("purchase_ticket", caller, event_id, TRUE)
                      /\ UNCHANGED << owner, next_event_id >>
         ELSE /\ last' = Call("purchase_ticket", caller, event_id, FALSE)
              /\ UNCHANGED << registry, nft >>

deactivate_event(caller, event_id) ==
    LET found == Get(events, event_id) IN
    IF found = None
    THEN /\ last' = Call("deactivate_event", caller, event_id, FALSE)
         /\ UNCHANGED << registry, nft >>
    ELSE LET event == found[1] IN
         IF IsHost(event, caller)
         THEN /\ events' = [events EXCEPT ![event.event_id] = Deactivated(@)]
              /\ last' = Call("deactivate_event", caller, event_id, TRUE)
              /\ UNCHANGED << owner, next_event_id, user_registered_events, nft >>
         ELSE /\ last' = Call("deactivate_event", caller, event_id, FALSE)
              /\ UNCHANGED << registry, nft >>

\* ------------------------------------------------------------ getters
get_event_details(event_id) ==
    IF Get(events, event_id) = None THEN None
    ELSE Some(Get(events, event_id)[1].details)

get_event_attendees(event_id) ==
    IF Get(events, event_id) = None THEN None
    ELSE Some(Get(events, event_id)[1].attendees)

get_ticket_nft_address(event_id) ==
    IF Get(events, event_id) = None THEN None
    ELSE Some(Get(events, event_id)[1].ticket_nft_address)

get_registered_events(user) == Get(user_registered_events, user)

get_owner_of(address, token_id) == Get(nft[address].tokens, token_id)

get_token_uri(address, token_id) == Get(nft[address].token_uris, token_id)

\* TicketNFT::mint_ticket called directly on the contract at `address`.  The
\* message checks nothing about its caller.
mint_ticket(caller, address, recipient, token_uri) ==
    /\ nft[address].token_id_counter <= MaxDirectId
    /\ nft' = [nft EXCEPT ![address] = MintedState(@, recipient, token_uri)]
    /\ last' = Call("mint_ticket", caller, 0, MintedId(nft[address]))
    /\ UNCHANGED registry

Next ==
    \/ \E c \in Accounts, d \in EventDetails, a \in Issuers : create_event(c, d, a)
    \/ \E c \in Accounts, p \in Payments, e \in EventIds, u \in Uris :
           purchase_ticket(c, p, e, u)
    \/ \E c \in Accounts, e \in EventIds : deactivate_event(c, e)
    \/ \E a \in DirectIssuers, u \in Uris : mint_ticket(Outsider, a, Outsider, u)

Spec == Init /\ [][Next]_vars

\* ------------------------------------------------------------ the tests' scenario
\* purchase_ticket is offered on an event of the scenario while its
\* tickets_sold is below MaxTestSales.
MaxTestSales == 2

\* The details every test of lib.rs creates its event with.
TestDetails ==
    [title |-> "Concert", date |-> "2024-12-01", location |-> "Stadium",
     ticket_price |-> 1000000, max_tickets |-> 100]

\* No payment attached, and the price of the tests' event.
TestPayments == {0, 1000000}

TestSalesOpen(event_id) ==
    event_id \in DOMAIN events => events[event_id].tickets_sold < MaxTestSales

\* The calls of the tests (create_event with the tests' details, then
\* purchase_ticket or deactivate_event), by any caller and in any order.
NextTest ==
    \/ \E c \in Accounts, a \in Issuers : create_event(c, TestDetails, a)
    \/ \E c \in Accounts, p \in TestPayments, e \in EventIds, u \in Uris :
           TestSalesOpen(e) /\ purchase_ticket(c, p, e, u)
    \/ \E c \in Accounts, e \in EventIds : deactivate_event(c, e)

SpecTest == Init /\ [][NextTest]_vars

\* ------------------------------------------------------------ vocabulary of the properties
\* The step just taken was the named message (every message writes `last`).
Did(op) == last'.op = op

\* The ids create_event has returned so far.
ReturnedIds == 1..(next_event_id - 1)

\* The token ids the issuer at `a` has minted so far.
MintedIds(a) == 1..(nft[a].token_id_counter - 1)

RECURSIVE SumSold(_)
\* The sum of tickets_sold over the events with ids in `ids`.
SumSold(ids) ==
    IF ids = {} THEN 0
    ELSE LET e == CHOOSE x \in ids : TRUE
         IN events[e].tickets_sold + SumSold(ids \ {e})

\* The events whose issuer reference is `a`.
EventsOf(a) == {e \in DOMAIN events : events[e].ticket_nft_address = a}

\* ------------------------------------------------------------ C1
CapacityInv ==
    \A e \in DOMAIN events :
        /\ events[e].tickets_sold <= events[e].details.max_tickets
        /\ events[e].details.max_tickets = 0 => events[e].attendees = << >>

SoldOutStep ==
    (/\ Did("purchase_ticket")
     /\ last'.event_id \in DOMAIN events
     /\ events[last'.event_id].tickets_sold = events[last'.event_id].details.max_tickets)
    => /\ last'.ret = FALSE
       /\ events'[last'.event_id].attendees = events[last'.event_id].attendees

\* C1: every stored event has tickets_sold <= details.max_tickets; a
\* purchase_ticket on an event whose tickets_sold equals max_tickets returns
\* false and leaves its attendees as they were; an event with max_tickets = 0
\* has no attendee.
C1_Capacity == []CapacityInv /\ [][SoldOutStep]_vars

\* A purchase was refused on an active, free event whose only place is taken:
\* no payment is too small for it, so the refusal is the capacity test.
C1_Witness ==
    /\ last.op = "purchase_ticket"
    /\ last.ret = FALSE
    /\ last.event_id \in DOMAIN events
    /\ LET ev == events[last.event_id] IN
         /\ ev.active
         /\ ev.details.ticket_price = 0
         /\ ev.details.max_tickets = 1
         /\ ev.tickets_sold = 1

\* ------------------------------------------------------------ C2
\* C2: the number of tokens each issuer holds equals the sum of tickets_sold
\* over the events whose issuer reference is that issuer.
C2_TokensMatchSales ==
    \A a \in Issuers :
        Cardinality(DOMAIN nft[a].tokens) = SumSold(EventsOf(a))

\* ------------------------------------------------------------ C3
UnderpaidStep ==
    (/\ Did("purchase_ticket")
     /\ last'.event_id \in DOMAIN events)
    => \A p \in Payments, u \in Uris :
          (/\ p < events[last'.event_id].details.ticket_price
           /\ purchase_ticket(last'.caller, p, last'.event_id, u))
          => /\ last'.ret = FALSE
             /\ UNCHANGED << registry, nft >>

\* C3: purchase_ticket on an existing event with a payment below its
\* ticket_price returns false and changes neither the registry (events,
\* user_registered_events, next_event_id, owner) nor any issuer's storage.
C3_PaymentGate == [][UnderpaidStep]_vars

\* A purchase was refused on an active priced event with a free place: the
\* refusal is the payment test.
C3_Witness ==
    /\ last.op = "purchase_ticket"
    /\ last.ret = FALSE
    /\ last.event_id \in DOMAIN events
    /\ LET ev == events[last.event_id] IN
         /\ ev.active
         /\ ev.tickets_sold < ev.details.max_tickets
         /\ ev.details.ticket_price = 1000
         /\ ev.attendees = << >>

\* ------------------------------------------------------------ C5
NonHostStep ==
    (/\ Did("deactivate_event")
     /\ last'.event_id \in DOMAIN events
     /\ events[last'.event_id].host # last'.caller)
    => /\ last'.ret = FALSE
       /\ UNCHANGED << registry, nft >>

\* C5: deactivate_event on an existing event by a caller other than its host
\* (the deployer of the registry included) returns false and changes nothing:
\* neither the event's active flag nor any other field of the registry.
C5_Authorization == [][NonHostStep]_vars

\* The deployer of the registry was refused on an active event hosted by
\* another account.
C5_Witness ==
    /\ last.op = "deactivate_event"
    /\ last.ret = FALSE
    /\ last.caller = owner
    /\ last.event_id \in DOMAIN events
    /\ events[last.event_id].host # owner
    /\ events[last.event_id].active

\* ------------------------------------------------------------ C6
IdsInv ==
    /\ DOMAIN events = ReturnedIds
    /\ \A e \in DOMAIN events : events[e].event_id = e
    /\ \A a \in Issuers :
         /\ nft[a].token_id_counter >= 1
         /\ DOMAIN nft[a].tokens = MintedIds(a)
         /\ DOMAIN nft[a].token_uris = MintedIds(a)
    /\ last.op \in {"create_event", "mint_ticket"} => last.ret >= 1

CreateStep ==
    IF Did("create_event")
    THEN /\ last'.ret = Cardinality(DOMAIN events) + 1
         /\ last'.ret \notin DOMAIN events
         /\ DOMAIN events' = DOMAIN events \cup {last'.ret}
         /\ \A e \in DOMAIN events : events'[e] = events[e]
    ELSE /\ next_event_id' = next_event_id
         /\ DOMAIN events' = DOMAIN events

MintStep ==
    \A a \in Issuers :
        nft'[a] # nft[a] =>
            LET k == Cardinality(DOMAIN nft[a].tokens) + 1 IN
            /\ DOMAIN nft'[a].tokens = DOMAIN nft[a].tokens \cup {k}
            /\ k \notin DOMAIN nft[a].tokens
            /\ Did("mint_ticket") => last'.ret = k

\* C6: the k-th create_event returns k, whatever purchase_ticket and
\* deactivate_event calls come between, and never an id already stored; the
\* k-th mint on an issuer assigns token id k, so token ids are 1, 2, 3, ...
\* and 0 is never one.
C6_MonotonicIds == []IdsInv /\ [][CreateStep /\ MintStep]_vars

\* The second create_event returned 2 after two sales on the first event
\* (token ids 1 and 2 on its issuer) and its deactivation.
C6_Witness ==
    /\ last.op = "create_event"
    /\ last.ret = 2
    /\ events[1].tickets_sold = 2
    /\ ~events[1].active
    /\ DOMAIN nft[events[1].ticket_nft_address].tokens = {1, 2}

\* ------------------------------------------------------------ C7
HostDeactivateStep ==
    (/\ Did("deactivate_event")
     /\ last'.event_id \in DOMAIN events
     /\ events[last'.event_id].host = last'.caller)
    => /\ last'.ret = TRUE
       /\ events'[last'.event_id].active = FALSE
       /\ ~events[last'.event_id].active => UNCHANGED << registry, nft >>

\* C7: deactivate_event by the host of an existing event returns true and
\* leaves active = false, whether the event was active or not; on an event
\* already inactive it changes no registry state.
C7_IdempotentDeactivation == [][HostDeactivateStep]_vars

\* The host's deactivate_event returned true on an event that is inactive and
\* has sold a ticket.  The same state follows the first and every repeated
\* deactivation.
C7_Witness ==
    /\ last.op = "deactivate_event"
    /\ last.ret = TRUE
    /\ last.event_id \in DOMAIN events
    /\ events[last.event_id].host = last.caller
    /\ ~events[last.event_id].active
    /\ events[last.event_id].tickets_sold = 1

\* ------------------------------------------------------------ C8
\* C8: every stored event has tickets_sold equal to the length of attendees.
C8_CounterMatchesRoll ==
    \A e \in DOMAIN events : events[e].tickets_sold = Len(events[e].attendees)

\* An event with two attendees.
C8_Witness ==
    \E e \in DOMAIN events :
        /\ Len(events[e].attendees) = 2
        /\ events[e].tickets_sold = 2

\* ------------------------------------------------------------ C9
PurchasedStep ==
    (/\ Did("purchase_ticket")
     /\ last'.ret = TRUE)
    => LET c  == last'.caller
           e  == last'.event_id
           ev == events[e]
           a  == ev.ticket_nft_address
           t  == nft[a].token_id_counter
           ure == user_registered_events
       IN
       /\ e \in DOMAIN events
       /\ events' = [events EXCEPT
                       ![e] = [ev EXCEPT !.attendees = ev.attendees \o << c >>,
                                         !.tickets_sold = ev.tickets_sold + 1]]
       /\ DOMAIN ure' = DOMAIN ure \cup {c}
       /\ ure'[c] = (IF c \in DOMAIN ure THEN ure[c] ELSE << >>) \o << e >>
       /\ \A x \in DOMAIN ure \ {c} : ure'[x] = ure[x]
       /\ c \notin DOMAIN ure =>
            /\ Get(ure, c) = None
            /\ Get(ure', c) = Some(<< e >>)
       /\ UNCHANGED << owner, next_event_id >>
       /\ t \notin DOMAIN nft[a].tokens
       /\ DOMAIN nft'[a].tokens = DOMAIN nft[a].tokens \cup {t}
       /\ \A x \in DOMAIN nft[a].tokens :
            /\ nft'[a].tokens[x] = nft[a].tokens[x]
            /\ nft'[a].token_uris[x] = nft[a].token_uris[x]
       /\ nft'[a].tokens[t] = c
       /\ DOMAIN nft'[a].token_uris = DOMAIN nft'[a].tokens
       /\ \A p \in Payments, u \in Uris :
            purchase_ticket(c, p, e, u) => nft'[a].token_uris[t] = u
       /\ \A b \in Issuers \ {a} : nft'[b] = nft[b]

\* C9: when purchase_ticket returns true for (event_id, caller), the caller is
\* appended to that event's attendees, its tickets_sold grows by 1, event_id
\* is appended to the caller's user_registered_events sequence (created when
\* absent), nothing else in the registry changes, and exactly one token is
\* minted, on the event's issuer, owned by the caller and carrying the given
\* token_uri.
C9_PurchaseEffect == [][PurchasedStep]_vars

\* bob's first purchase succeeded while alice already had an entry: bob's
\* entry was created with the event id alone.
C9_Witness ==
    /\ last.op = "purchase_ticket"
    /\ last.ret = TRUE
    /\ last.caller = "bob"
    /\ "alice" \in DOMAIN user_registered_events
    /\ user_registered_events["bob"] = << last.event_id >>
    /\ events[last.event_id].attendees = << "alice", "bob" >>

\* ------------------------------------------------------------ C10
\* The accounts that appear in no attendee roll.
NeverPurchased ==
    {c \in Accounts \cup {Outsider} :
        \A e \in DOMAIN events :
            \A i \in DOMAIN events[e].attendees : events[e].attendees[i] # c}

NotFoundInv ==
    /\ \A e \in EventIds \ ReturnedIds :
         /\ get_event_details(e) = None
         /\ get_event_attendees(e) = None
         /\ get_ticket_nft_address(e) = None
    /\ \A c \in NeverPurchased : get_registered_events(c) = None
    /\ \A a \in Issuers : \A t \in TokenIds \ MintedIds(a) :
         /\ get_owner_of(a, t) = None
         /\ get_token_uri(a, t) = None

NotFoundStep ==
    (/\ Did("purchase_ticket") \/ Did("deactivate_event")
     /\ last'.event_id \notin ReturnedIds)
    => /\ last'.ret = FALSE
       /\ UNCHANGED << registry, nft >>

\* C10: for an event id no create_event has returned, purchase_ticket and
\* deactivate_event return false and change neither the registry nor any
\* issuer, and the three event getters return none; get_registered_events
\* returns none for an account in no attendee roll; get_owner_of and
\* get_token_uri return none for a token id never minted.
C10_NotFound == []NotFoundInv /\ [][NotFoundStep]_vars

\* A purchase on an id never created was refused while another event is on
\* sale and its issuer has minted.
C10_Witness ==
    /\ last.op = "purchase_ticket"
    /\ last.ret = FALSE
    /\ last.event_id \notin ReturnedIds
    /\ \E e \in DOMAIN events :
         /\ events[e].active
         /\ events[e].tickets_sold = 1
         /\ events[e].details.max_tickets = 2
         /\ events[e].details.ticket_price = 0 + 1000
    /\ "bob" \in NeverPurchased

\* ------------------------------------------------------------ C11
TokensKeptStep ==
    \A a \in Issuers : \A t \in DOMAIN nft[a].tokens :
        /\ get_owner_of(a, t) # None
        /\ t \in DOMAIN nft'[a].tokens
        /\ t \in DOMAIN nft'[a].token_uris
        /\ nft'[a].tokens[t] = nft[a].tokens[t]
        /\ nft'[a].token_uris[t] = nft[a].token_uris[t]

MintedTokenStep ==
    \A a \in DirectIssuers, u \in Uris :
        mint_ticket(Outsider, a, Outsider, u) =>
            /\ Get(nft'[a].tokens, last'.ret) = Some(Outsider)
            /\ Get(nft'[a].token_uris, last'.ret) = Some(u)

\* C11: right after mint_ticket(recipient, uri) returns t, the owner of t is
\* recipient and its uri is uri; and no step of any message changes or
\* removes the owner or the uri of a token that exists.
C11_TicketPermanence == [][TokensKeptStep /\ MintedTokenStep]_vars

\* The token minted first on nft1 is still the outsider's, with its uri, after
\* a later mint on nft1 by a purchase and a deactivation.
C11_Witness ==
    /\ get_owner_of("nft1", 1) = Some(Outsider)
    /\ get_token_uri("nft1", 1) = Some("TicketURI")
    /\ get_owner_of("nft1", 2) = Some("alice")
    /\ last.op = "deactivate_event"
    /\ last.ret = TRUE

\* ------------------------------------------------------------ C12
CreatedStep ==
    Did("create_event") =>
        \A d \in EventDetails, a \in Issuers :
            create_event(last'.caller, d, a) =>
                /\ last'.ret \notin DOMAIN events
                /\ events'[last'.ret] =
                       [event_id |-> last'.ret, details |-> d,
                        ticket_nft_address |-> a, attendees |-> << >>,
                        tickets_sold |-> 0, active |-> TRUE,
                        host |-> last'.caller]
                /\ Get(events', last'.ret) # None
                /\ Get(events', last'.ret)[1].details = d
                /\ \A e \in DOMAIN events : events'[e] = events[e]
                /\ user_registered_events' = user_registered_events

\* create_event has no refusing path: while the model offers ids, every
\* caller can create with every details and every issuer reference.
CreateOffered ==
    next_event_id \in CreatableIds =>
        \A c \in Accounts, d \in EventDetails, a \in Issuers :
            ENABLED create_event(c, d, a)

\* C12: create_event succeeds for any details (the empty strings, price 0 and
\* max_tickets 0 included) and any issuer reference; the event it stores is
\* active, has tickets_sold 0, no attendee, the caller as host and exactly the
\* details passed, which get_event_details returns; no stored event and no
\* user_registered_events entry changes.
C12_CreateEvent == []CreateOffered /\ [][CreatedStep]_vars

\* bob created the second event with the empty details while the first event
\* has an attendee and alice a user_registered_events entry.
C12_Witness ==
    /\ last.op = "create_event"
    /\ last.caller = "bob"
    /\ last.ret = 2
    /\ get_event_details(2) = Some(EmptyDetails)
    /\ events[2].host = "bob"
    /\ events[1].attendees = << "alice" >>
    /\ "alice" \in DOMAIN user_registered_events

\* ------------------------------------------------------------ C13
\* The event e is as create_event with the tests' details left it, and c is
\* the caller who created it.
FreshTestEvent(e, c) ==
    /\ events[e].details = TestDetails
    /\ events[e].attendees = << >>
    /\ events[e].tickets_sold = 0
    /\ events[e].active
    /\ events[e].host = c

\* purchase_ticket by the creator, with no payment, on a fresh event of the
\* tests returns `result` and leaves get_event_attendees with n entries.
UnpaidTestPurchase(result, n) ==
    \A c \in Accounts, e \in DOMAIN events, u \in Uris :
        (FreshTestEvent(e, c) /\ purchase_ticket(c, 0, e, u)) =>
            /\ last'.ret = result
            /\ Get(events', e) # None
            /\ Len(Get(events', e)[1].attendees) = n

\* C13 (the assertions of test_get_event_attendees): on a newly created event with
\* ticket_price 1_000_000 and max_tickets 100, purchase_ticket by the creator
\* with no payment returns true and get_event_attendees then has length 1.
C13_AsTested == [][UnpaidTestPurchase(TRUE, 1)]_vars

\* ------------------------------------------------------------ C14
ActiveFlagStep ==
    /\ \A e \in DOMAIN events :
         /\ e \in DOMAIN events'
         /\ ~events[e].active => ~events'[e].active
         /\ events'[e].active # events[e].active =>
              /\ Did("deactivate_event")
              /\ last'.event_id = e
              /\ last'.caller = events[e].host
              /\ last'.ret = TRUE
    /\ \A e \in DOMAIN events' \ DOMAIN events : events'[e].active

\* C14: an event is active when created; once its active flag is false it is
\* false after every step; the only step that changes the flag is a
\* deactivate_event on that event by its host.
C14_DeactivationPermanent == [][ActiveFlagStep]_vars

\* An inactive event on which a later purchase was refused, beside another
\* event that is still active.
C14_Witness ==
    /\ last.op = "purchase_ticket"
    /\ last.ret = FALSE
    /\ last.event_id \in DOMAIN events
    /\ ~events[last.event_id].active
    /\ \E e \in DOMAIN events : events[e].active

\* ------------------------------------------------------------ C15
InactiveStep ==
    \A e \in DOMAIN events :
        ~events[e].active =>
            /\ events'[e].attendees = events[e].attendees
            /\ events'[e].tickets_sold = events[e].tickets_sold
            /\ (Did("purchase_ticket") /\ last'.event_id = e) =>
                 /\ last'.ret = FALSE
                 /\ UNCHANGED nft

\* C15: on an inactive event every purchase_ticket returns false, whatever the
\* payment and the free places, and mints nothing; no step changes the
\* attendees or the tickets_sold of an inactive event.
C15_NoSalesAfterDeactivation == [][InactiveStep]_vars

\* A purchase was refused on an inactive free event with a free place: no
\* payment is too small and the capacity is not reached, so the refusal is the
\* active test.
C15_Witness ==
    /\ last.op = "purchase_ticket"
    /\ last.ret = FALSE
    /\ last.event_id \in DOMAIN events
    /\ LET ev == events[last.event_id] IN
         /\ ~ev.active
         /\ ev.details.ticket_price = 0
         /\ ev.details.max_tickets = 1
         /\ ev.tickets_sold = 0

\* ------------------------------------------------------------ C16
\* The number of occurrences of x in seq.
Count(seq, x) == Cardinality({i \in DOMAIN seq : seq[i] = x})

RegisteredOf(c) ==
    IF c \in DOMAIN user_registered_events THEN user_registered_events[c] ELSE << >>

RollOf(e) == IF e \in DOMAIN events THEN events[e].attendees ELSE << >>

\* C16: for every caller c and event id e, e occurs in c's
\* user_registered_events sequence as often as c occurs in the attendees of e;
\* a caller has an entry exactly when on some roll; every id in any sequence
\* is the id of a stored event.
C16_RegistryMirrorsRolls ==
    /\ \A c \in Accounts \cup {Outsider} : \A e \in EventIds :
         Count(RegisteredOf(c), e) = Count(RollOf(e), c)
    /\ DOMAIN user_registered_events = (Accounts \cup {Outsider}) \ NeverPurchased
    /\ \A c \in DOMAIN user_registered_events :
         \A i \in DOMAIN user_registered_events[c] :
             user_registered_events[c][i] \in DOMAIN events

\* alice bought into event 2, then into event 1; bob bought nothing.
C16_Witness ==
    /\ "alice" \in DOMAIN user_registered_events
    /\ user_registered_events["alice"] = << 2, 1 >>
    /\ events[1].attendees = << "alice" >>
    /\ events[2].attendees = << "alice" >>
    /\ "bob" \notin DOMAIN user_registered_events

\* ------------------------------------------------------------ C17
IsPrefix(p, q) ==
    /\ Len(p) <= Len(q)
    /\ \A i \in DOMAIN p : q[i] = p[i]

AppendOnlyStep ==
    /\ \A e \in DOMAIN events :
         /\ e \in DOMAIN events'
         /\ IsPrefix(events[e].attendees, events'[e].attendees)
    /\ \A c \in DOMAIN user_registered_events :
         /\ c \in DOMAIN user_registered_events'
         /\ IsPrefix(user_registered_events[c], user_registered_events'[c])
    /\ (Did("purchase_ticket") /\ last'.ret = TRUE) =>
         /\ events'[last'.event_id].attendees =
                events[last'.event_id].attendees \o << last'.caller >>
         /\ user_registered_events'[last'.caller] =
                RegisteredOf(last'.caller) \o << last'.event_id >>

\* C17: across every step each event's attendees and each caller's
\* user_registered_events sequence are prefixes of their new values, no event
\* and no entry disappears, and a successful purchase puts the caller and the
\* event id at the end: the roll is in the order the purchases succeeded.
C17_AppendOnly == [][AppendOnlyStep]_vars

\* alice bought after bob on the same event, which bob does not host.
C17_Witness ==
    /\ last.op = "purchase_ticket"
    /\ last.ret = TRUE
    /\ last.caller = "alice"
    /\ events[last.event_id].attendees = << "bob", "alice" >>
    /\ events[last.event_id].host = "alice"
    /\ user_registered_events["alice"] = << last.event_id >>
    /\ user_registered_events["bob"] = << last.event_id >>

\* ------------------------------------------------------------ C18
FrameStep ==
    (Did("purchase_ticket") \/ Did("deactivate_event")) =>
        /\ next_event_id' = next_event_id
        /\ DOMAIN events' = DOMAIN events
        /\ \A x \in DOMAIN events :
             /\ x # last'.event_id => events'[x] = events[x]
             /\ events'[x].event_id = events[x].event_id
             /\ events'[x].details = events[x].details
             /\ events'[x].ticket_nft_address = events[x].ticket_nft_address
             /\ events'[x].host = events[x].host
             /\ Did("purchase_ticket") => events'[x].active = events[x].active
             /\ Did("deactivate_event") =>
                  /\ events'[x].attendees = events[x].attendees
                  /\ events'[x].tickets_sold = events[x].tickets_sold
        /\ Did("deactivate_event") =>
             user_registered_events' = user_registered_events

\* C18: purchase_ticket(e, ..) and deactivate_event(e) change no event other
\* than e, and of no event the event_id, details, ticket_nft_address or host;
\* purchase_ticket changes no active flag, deactivate_event no attendees, no
\* tickets_sold and no user_registered_events entry; neither changes
\* next_event_id.
C18_Frame == [][FrameStep]_vars

\* The host deactivated event 1, which keeps its attendee, while event 2 is
\* active with one.
C18_Witness ==
    /\ last.op = "deactivate_event"
    /\ last.ret = TRUE
    /\ last.event_id = 1
    /\ DOMAIN events = {1, 2}
    /\ events[1].attendees = << "bob" >>
    /\ events[2].active
    /\ events[2].attendees = << "alice" >>

\* ------------------------------------------------------------ C20
\* The event e exists, is active and has a free place, and p reaches its
\* price: the lookup and the condition of purchase_ticket, on the stored record.
Purchasable(e, p) ==
    /\ e \in DOMAIN events
    /\ events[e].active
    /\ events[e].tickets_sold < events[e].details.max_tickets
    /\ p >= events[e].details.ticket_price

\* A caller already on the roll of an event that can still sell is offered a
\* purchase that returns true.
RepeatOffered ==
    \A c \in Accounts, p \in Payments, u \in Uris :
        \A e \in DOMAIN events :
            (/\ Count(events[e].attendees, c) >= 1
             /\ Purchasable(e, p)
             /\ TotalMinted < MaxMints)
            => ENABLED (purchase_ticket(c, p, e, u) /\ last'.ret = TRUE)

RepeatStep ==
    (/\ Did("purchase_ticket")
     /\ last'.ret = TRUE
     /\ Count(events[last'.event_id].attendees, last'.caller) >= 1)
    => LET c == last'.caller
           e == last'.event_id
           a == events[e].ticket_nft_address
       IN /\ Count(events'[e].attendees, c) = Count(events[e].attendees, c) + 1
          /\ Count(user_registered_events'[c], e) = Count(RegisteredOf(c), e) + 1
          /\ nft'[a].token_id_counter = nft[a].token_id_counter + 1
          /\ DOMAIN nft'[a].tokens = DOMAIN nft[a].tokens \cup {nft[a].token_id_counter}
          /\ nft'[a].tokens[nft[a].token_id_counter] = c

\* C20: purchase_ticket has no test on the roll: a caller already in the
\* attendees of an active event with a free place, paying at least the price,
\* can be returned true; each such success adds one occurrence of the caller
\* to attendees, one occurrence of the event id to the caller's
\* user_registered_events sequence and one token owned by the caller on the
\* issuer.
C20_RepeatPurchases == []RepeatOffered /\ [][RepeatStep]_vars

\* The host took both places of an event of two.
C20_Witness ==
    /\ last.op = "purchase_ticket"
    /\ last.ret = TRUE
    /\ LET ev == events[last.event_id] IN
         /\ ev.details.max_tickets = 2
         /\ ev.tickets_sold = 2
         /\ ev.host = last.caller
         /\ ev.attendees = << last.caller, last.caller >>
         /\ Count(user_registered_events[last.caller], last.event_id) = 2

====
